---- MODULE Spec2Model ----
(***************************************************************************)
(* Model of the TwitterBot facade of "js help/index.js": credential        *)
(* loading, the fire-and-forget client initialisation started by the       *)
(* constructor, and the three asynchronous operations sendTweet,           *)
(* createThread and deleteTweet, driven by a caller that awaits each       *)
(* operation before starting the next one, as main() does.                 *)
(*                                                                         *)
(* Every call into the external client (v2.me, v2.tweet, v2.deleteTweet)   *)
(* is split in two steps: the step that issues it (the synchronous part    *)
(* of the async function up to its await) and the step in which the        *)
(* provider settles it (the continuation after the await).                 *)
(***************************************************************************)
EXTENDS Integers, Sequences, FiniteSets

\* ---------------------------------------------------------------- bounds
MaxOps == 2          \* operations the caller performs after construction
MaxThread == 2       \* longest message list handed to createThread

\* ------------------------------------------------------ program constants
MaxTweetLen == 280   \* the limit tested by sendTweet

\* ------------------------------------------------------------ JS values
Undefined == "undefined"
Null == "null"
NoReply == "none"                    \* tweetOptions = {}
NoMessage == [txt |-> "", length |-> 0]
NoData == [id |-> Null, text |-> Null]

\* values an environment variable may have: unset, empty, set
EnvValues == {Undefined, "", "secret"}
CredentialNames == {"apiKey", "apiSecret", "accessToken",
                    "accessTokenSecret", "bearerToken"}

\* identifiers the provider's response may carry in data.id
Ids == {"", "17"}

\* message texts, by content tag and .length
Messages == { [txt |-> "a", length |-> 1],
              [txt |-> "b", length |-> MaxTweetLen],
              [txt |-> "c", length |-> MaxTweetLen + 1] }

\* error codes a rejected call may carry
ErrorCodes == {403, 500}

\* JavaScript truthiness of a string-or-null-or-undefined value
Truthy(v) == v \notin {Undefined, Null, ""}

SeqsUpTo(S, n) == UNION { [1..k -> S] : k \in 0..n }

VARIABLES
    env,              \* process.env credentials after dotenv.config
    ctor,             \* "notCalled" | "returned" | "threw"
    client,           \* this.client: Undefined | "session"
    initPromise,      \* promise of _initializeClient: none|pending|fulfilled|rejected
    me,               \* the v2.me() call: notIssued|pending|fulfilled|rejected
    process,          \* "running" | "warned" | "crashed" (unhandled rejection)
    pc,               \* caller: idle | sendTweet | createThread | deleteTweet
    nOps,             \* operations started so far
    op,               \* name of the current / last operation
    messages,         \* argument of the current / last operation (list of texts)
    tweetId,          \* argument of deleteTweet
    tweets,           \* createThread local
    previousTweetId,  \* createThread local
    calls,            \* calls the current / last operation issued to the client
    logs,             \* log lines of the current / last operation
    ret               \* what the last operation returned

vars == <<env, ctor, client, initPromise, me, process, pc, nOps, op, messages,
          tweetId, tweets, previousTweetId, calls, logs, ret>>

\* --------------------------------------------------------------- helpers

\* calls to the external API that have been issued and not settled
Outstanding(m, cs) ==
    (IF m = "pending" THEN 1 ELSE 0)
  + Cardinality({ k \in 1..Len(cs) : cs[k].outcome = "pending" })

\* the record of one call into the client, issued when the calls in cs
\* have been issued before it
Call(api, message, reply, id, cs) ==
    [ api |-> api, message |-> message, reply |-> reply, id |-> id,
      outcome |-> "pending", data |-> NoData, code |-> 0,
      outstanding |-> Outstanding(me, cs), meAtIssue |-> me ]

Settle(cs, outcome, data, code) ==
    [cs EXCEPT ![Len(cs)] = [@ EXCEPT !.outcome = outcome, !.data = data,
                                      !.code = code]]

Awaiting(name) ==
    /\ process # "crashed"
    /\ pc = name
    /\ calls # <<>>
    /\ calls[Len(calls)].outcome = "pending"

Return(type, val, threw) == [type |-> type, val |-> val, threw |-> threw]
NoReturn == Return("none", <<>>, FALSE)

\* _loadCredentials: the test that throws "Missing required credentials"
CredentialsMissingIgnoringBearer(e) ==
    \/ ~Truthy(e.apiKey) \/ ~Truthy(e.apiSecret) \/ ~Truthy(e.accessToken)
    \/ ~Truthy(e.accessTokenSecret)

CredentialsMissing(e) ==
    \/ ~Truthy(e.apiKey) \/ ~Truthy(e.apiSecret) \/ ~Truthy(e.accessToken)
    \/ ~Truthy(e.accessTokenSecret) \/ ~Truthy(e.bearerToken)

\* sendTweet: the length validation
ExceedsLimitOffByOne(message) == message.length > MaxTweetLen + 1

ExceedsLimit(message) == message.length > MaxTweetLen

\* createThread: the options of the next submission
TweetOptionsStale(prev) == NoReply

TweetOptions(prev) == IF Truthy(prev) THEN prev ELSE NoReply

\* sendTweet: the log line of the catch block
SendTweetErrorLog(code) ==
    IF code = 403 THEN "Access level error" ELSE "Error posting tweet"

\* sendTweet: the value returned by the catch block
SendTweetCatchRethrow(code) ==
    IF code = 403 THEN Return("none", <<>>, TRUE) ELSE Return("null", <<>>, FALSE)

SendTweetCatch(code) == Return("null", <<>>, FALSE)

\* createThread: the value returned by the catch block
ThreadCatchAllOrNothing(ts) == Return("array", <<>>, FALSE)

ThreadCatch(ts) == Return("array", ts, FALSE)

\* deleteTweet: the value returned by the catch block
DeleteCatchTrue == Return("true", <<>>, FALSE)

DeleteCatch == Return("false", <<>>, FALSE)

\* ------------------------------------------------------------------ Init
Init ==
    /\ env \in [CredentialNames -> EnvValues]
    /\ ctor = "notCalled"
    /\ client = Undefined
    /\ initPromise = "none"
    /\ me = "notIssued"
    /\ process = "running"
    /\ pc = "idle"
    /\ nOps = 0
    /\ op = "none"
    /\ messages = <<>>
    /\ tweetId = Null
    /\ tweets = <<>>
    /\ previousTweetId = Null
    /\ calls = <<>>
    /\ logs = <<>>
    /\ ret = NoReturn

opVars == <<pc, nOps, op, messages, tweetId, tweets, previousTweetId, calls,
            logs, ret>>

\* ----------------------------------------------------------- constructor

\* new TwitterBot(): _loadCredentials throws on a missing credential
ConstructMissing ==
    /\ ctor = "notCalled"
    /\ CredentialsMissing(env)
    /\ ctor' = "threw"
    /\ logs' = <<"Failed to load credentials">>
    /\ UNCHANGED <<env, client, initPromise, me, process, pc, nOps, op,
                   messages, tweetId, tweets, previousTweetId, calls, ret>>

\* new TwitterBot(): credentials present, _initializeClient() is called and
\* not awaited; it runs up to `await this.client.v2.me()`
ConstructOk ==
    /\ ctor = "notCalled"
    /\ ~CredentialsMissing(env)
    /\ ctor' = "returned"
    /\ client' = "session"
    /\ me' = "pending"
    /\ initPromise' = "pending"
    /\ UNCHANGED <<env, process, opVars>>

\* new TwitterBot(): credentials present, `new TwitterApi(...)` throws inside
\* _initializeClient; the async function's promise is rejected, the
\* constructor still returns
ConstructClientThrows ==
    /\ ctor = "notCalled"
    /\ ~CredentialsMissing(env)
    /\ ctor' = "returned"
    /\ initPromise' = "rejected"
    /\ UNCHANGED <<env, client, me, process, opVars>>

\* the identity check succeeds
MeResolve ==
    /\ process # "crashed"
    /\ me = "pending"
    /\ me' = "fulfilled"
    /\ initPromise' = "fulfilled"
    /\ UNCHANGED <<env, ctor, client, process, opVars>>

\* the identity check is rejected: the catch block logs and rethrows, which
\* rejects the promise of _initializeClient that nobody holds; the process
\* keeps running until the runtime reports the rejection
MeReject ==
    /\ process = "running"
    /\ me = "pending"
    /\ me' = "rejected"
    /\ initPromise' = "rejected"
    /\ UNCHANGED <<env, ctor, client, process, opVars>>

\* the runtime reports the rejected promise of _initializeClient (rejected
\* by a failed identity check or by a throwing `new TwitterApi`) once the
\* microtask queue has drained: it terminates the process or only warns,
\* depending on its unhandled-rejection mode.  Continuations queued in the
\* same drain (a call settled in the same turn, the caller's next
\* operation) run before the report, so it may come at any later point.
UnhandledRejection ==
    /\ process = "running"
    /\ initPromise = "rejected"
    /\ process' \in {"crashed", "warned"}
    /\ UNCHANGED <<env, ctor, client, initPromise, me, opVars>>

\* the caller may start an operation
CanCall ==
    /\ process # "crashed"
    /\ ctor = "returned"
    /\ pc = "idle"
    /\ nOps < MaxOps

initVars == <<env, ctor, client, initPromise, me, process>>

\* ------------------------------------------------------------- sendTweet

\* sendTweet(message) up to its await, or to its return when it throws
\* before reaching the client
SendTweet ==
    /\ CanCall
    /\ \E m \in Messages :
        /\ op' = "sendTweet"
        /\ messages' = <<m>>
        /\ IF ExceedsLimit(m) \/ client = Undefined
           THEN /\ calls' = <<>>
                /\ logs' = <<SendTweetErrorLog(0)>>
                /\ ret' = SendTweetCatch(0)
                /\ pc' = "idle"
           ELSE /\ calls' = <<Call("tweet", m, NoReply, Null, <<>>)>>
                /\ logs' = <<>>
                /\ ret' = NoReturn
                /\ pc' = "sendTweet"
    /\ nOps' = nOps + 1
    /\ tweetId' = Null
    /\ tweets' = <<>>
    /\ previousTweetId' = Null
    /\ UNCHANGED initVars

\* the provider accepts the tweet: log and return tweet.data
SendTweetResolve ==
    /\ Awaiting("sendTweet")
    /\ \E id \in Ids :
        LET data == [id |-> id, text |-> messages[1].txt] IN
        /\ calls' = Settle(calls, "ok", data, 0)
        /\ ret' = Return("object", <<data>>, FALSE)
    /\ logs' = Append(logs, "Tweet posted successfully")
    /\ pc' = "idle"
    /\ UNCHANGED <<initVars, nOps, op, messages, tweetId, tweets,
                   previousTweetId>>

\* the provider rejects the tweet: the catch block logs and returns null
SendTweetReject ==
    /\ Awaiting("sendTweet")
    /\ \E code \in ErrorCodes :
        /\ calls' = Settle(calls, "error", NoData, code)
        /\ logs' = Append(logs, SendTweetErrorLog(code))
        /\ ret' = SendTweetCatch(code)
    /\ pc' = "idle"
    /\ UNCHANGED <<initVars, nOps, op, messages, tweetId, tweets,
                   previousTweetId>>

\* ---------------------------------------------------------- createThread

\* createThread(messages) up to the await of its first submission, or to
\* its return when the list is empty or the client is unavailable
CreateThread ==
    /\ CanCall
    /\ \E ms \in SeqsUpTo(Messages, MaxThread) :
        /\ op' = "createThread"
        /\ messages' = ms
        /\ tweets' = <<>>
        /\ previousTweetId' = Null
        /\ IF ms = <<>>
           THEN /\ calls' = <<>>
                /\ logs' = <<>>
                /\ ret' = Return("array", <<>>, FALSE)
                /\ pc' = "idle"
           ELSE IF client = Undefined
           THEN /\ calls' = <<>>
                /\ logs' = <<"Error creating thread">>
                /\ ret' = ThreadCatch(<<>>)
                /\ pc' = "idle"
           ELSE /\ calls' = <<Call("tweet", ms[1], TweetOptions(Null), Null,
                                   <<>>)>>
                /\ logs' = <<>>
                /\ ret' = NoReturn
                /\ pc' = "createThread"
    /\ nOps' = nOps + 1
    /\ tweetId' = Null
    /\ UNCHANGED initVars

\* the provider rejects the current submission: the catch block logs and
\* returns the tweets collected so far
ThreadRejectRetry ==
    /\ Awaiting("createThread")
    /\ \E code \in ErrorCodes :
        LET settled == Settle(calls, "error", NoData, code)
            last == calls[Len(calls)] IN
        IF Len(calls) < Len(messages) + 1
        THEN /\ calls' = Append(settled, Call("tweet", last.message,
                                              last.reply, Null, settled))
             /\ UNCHANGED <<ret, pc>>
        ELSE /\ calls' = settled
             /\ ret' = ThreadCatch(tweets)
             /\ pc' = "idle"
    /\ logs' = Append(logs, "Error creating thread")
    /\ UNCHANGED <<initVars, nOps, op, messages, tweetId, tweets,
                   previousTweetId>>

ThreadReject ==
    /\ Awaiting("createThread")
    /\ \E code \in ErrorCodes :
        calls' = Settle(calls, "error", NoData, code)
    /\ logs' = Append(logs, "Error creating thread")
    /\ ret' = ThreadCatch(tweets)
    /\ pc' = "idle"
    /\ UNCHANGED <<initVars, nOps, op, messages, tweetId, tweets,
                   previousTweetId>>

\* the provider accepts the current submission: push tweet.data, remember
\* its id, log, and run the loop to the next await or to the return
ThreadResolve ==
    /\ Awaiting("createThread")
    /\ \E id \in Ids :
        LET data == [id |-> id, text |-> calls[Len(calls)].message.txt]
            settled == Settle(calls, "ok", data, 0)
            pushed == Append(tweets, data) IN
        /\ tweets' = pushed
        /\ previousTweetId' = data.id
        /\ IF Len(pushed) < Len(messages)
           THEN /\ calls' = Append(settled,
                                   Call("tweet", messages[Len(pushed) + 1],
                                        TweetOptions(data.id), Null, settled))
                /\ UNCHANGED <<ret, pc>>
           ELSE /\ calls' = settled
                /\ ret' = Return("array", pushed, FALSE)
                /\ pc' = "idle"
    /\ logs' = Append(logs, "Thread tweet posted")
    /\ UNCHANGED <<initVars, nOps, op, messages, tweetId>>

\* ----------------------------------------------------------- deleteTweet

\* deleteTweet(tweetId) up to its await, or to its return when the client
\* is unavailable
DeleteTweet ==
    /\ CanCall
    /\ \E id \in Ids :
        /\ tweetId' = id
        /\ IF client = Undefined
           THEN /\ calls' = <<>>
                /\ logs' = <<"Error deleting tweet">>
                /\ ret' = DeleteCatch
                /\ pc' = "idle"
           ELSE /\ calls' = <<Call("deleteTweet", NoMessage, NoReply, id,
                                   <<>>)>>
                /\ logs' = <<>>
                /\ ret' = NoReturn
                /\ pc' = "deleteTweet"
    /\ op' = "deleteTweet"
    /\ messages' = <<>>
    /\ nOps' = nOps + 1
    /\ tweets' = <<>>
    /\ previousTweetId' = Null
    /\ UNCHANGED initVars

\* the provider confirms the deletion
DeleteResolve ==
    /\ Awaiting("deleteTweet")
    /\ calls' = Settle(calls, "ok", NoData, 0)
    /\ logs' = Append(logs, "Tweet deleted successfully")
    /\ ret' = Return("true", <<>>, FALSE)
    /\ pc' = "idle"
    /\ UNCHANGED <<initVars, nOps, op, messages, tweetId, tweets,
                   previousTweetId>>

\* the provider rejects the deletion
DeleteReject ==
    /\ Awaiting("deleteTweet")
    /\ \E code \in ErrorCodes :
        calls' = Settle(calls, "error", NoData, code)
    /\ logs' = Append(logs, "Error deleting tweet")
    /\ ret' = DeleteCatch
    /\ pc' = "idle"
    /\ UNCHANGED <<initVars, nOps, op, messages, tweetId, tweets,
                   previousTweetId>>

\* ------------------------------------------------------------------ Next
Next ==
    \/ ConstructMissing
    \/ ConstructOk
    \/ ConstructClientThrows
    \/ MeResolve
    \/ MeReject
    \/ UnhandledRejection
    \/ SendTweet
    \/ SendTweetResolve
    \/ SendTweetReject
    \/ CreateThread
    \/ ThreadResolve
    \/ ThreadReject
    \/ DeleteTweet
    \/ DeleteResolve
    \/ DeleteReject

Spec == Init /\ [][Next]_vars

TypeOK ==
    /\ ctor \in {"notCalled", "returned", "threw"}
    /\ client \in {Undefined, "session"}
    /\ me \in {"notIssued", "pending", "fulfilled", "rejected"}
    /\ process \in {"running", "warned", "crashed"}
    /\ pc \in {"idle", "sendTweet", "createThread", "deleteTweet"}
    /\ nOps \in 0..MaxOps
    /\ Len(tweets) <= Len(messages)

\* ---------------------------------------------------------------- claims

Returned(name) == op = name /\ pc = "idle"
ErrorCalls == { k \in 1..Len(calls) : calls[k].outcome = "error" }
FirstError == CHOOSE k \in ErrorCalls : \A j \in ErrorCalls : k <= j

\* C1: when createThread has returned, it returned an array and threw
\* nothing; if the submission of message k (0-indexed) was the first to
\* fail the array holds exactly k posts, otherwise one post per message
\* (none when the client is unavailable, where the first submission throws
\* before reaching the provider); the posts are the data the provider
\* returned for the first submissions, in input order.
C1_ThreadReturnsCreatedPrefix ==
    Returned("createThread") =>
        /\ ret.type = "array"
        /\ ~ret.threw
        /\ Len(ret.val) = IF ErrorCalls # {} THEN FirstError - 1
                          ELSE IF client = Undefined THEN 0
                          ELSE Len(messages)
        /\ \A j \in 1..Len(ret.val) :
             /\ calls[j].outcome = "ok"
             /\ calls[j].message = messages[j]
             /\ ret.val[j] = calls[j].data

C1_Witness ==
    /\ Returned("createThread")
    /\ Len(messages) = 2
    /\ Len(calls) = 2
    /\ calls[2].outcome = "error"
    /\ Len(ret.val) = 1

\* C2: in createThread the first submission carries no parent reference,
\* every later submission carries the identifier the provider returned for
\* the submission before it, and it is issued only after that submission
\* succeeded.
C2_ParentChaining ==
    op = "createThread" =>
        \A k \in 1..Len(calls) :
            IF k = 1 THEN calls[k].reply = NoReply
            ELSE /\ calls[k - 1].outcome = "ok"
                 /\ calls[k].reply = calls[k - 1].data.id

\* C3: sendTweet of a text longer than 280 returns null and issues no call
\* to the client.
C3_OversizedTweetNotSent ==
    (op = "sendTweet" /\ messages[1].length > MaxTweetLen) =>
        /\ calls = <<>>
        /\ pc = "idle"
        /\ ret = Return("null", <<>>, FALSE)

C3_Witness ==
    /\ Returned("sendTweet")
    /\ client = "session"
    /\ messages[1].length = MaxTweetLen + 1
    /\ ret.type = "null"

\* C4: when the identity check is rejected, construction has reported
\* failure to its caller, and no create or delete request is submitted
\* through the session after the rejection.
C4_RejectedIdentityFailsConstruction ==
    /\ me = "rejected" => ctor # "returned"
    /\ \A k \in 1..Len(calls) : calls[k].meAtIssue # "rejected"

\* C5: when any of the five credentials is unset or empty, the constructor
\* throws once called, the client is never constructed and the identity
\* check is never issued.
C5_MissingCredentialNoSession ==
    (\E n \in CredentialNames : env[n] \in {Undefined, ""}) =>
        /\ ctor # "returned"
        /\ client = Undefined
        /\ me = "notIssued"
        /\ initPromise = "none"
        /\ calls = <<>>

C5_Witness ==
    /\ ctor = "threw"
    /\ env.bearerToken = ""
    /\ \A n \in CredentialNames \ {"bearerToken"} : env[n] = "secret"

\* C6: when deleteTweet has returned it threw nothing and returned a
\* boolean, true exactly when a delete request was issued and the provider
\* completed it without error.
C6_DeleteReturnsOutcome ==
    Returned("deleteTweet") =>
        /\ ~ret.threw
        /\ ret.type \in {"true", "false"}
        /\ ret.type = "true" <=> (calls # <<>> /\ calls[1].outcome = "ok")

C6_Witness ==
    /\ Returned("deleteTweet")
    /\ calls # <<>>
    /\ calls[1].outcome = "error"
    /\ ret.type = "false"

\* C7: when sendTweet has returned it threw nothing; it returned the
\* provider's data if the provider accepted the tweet and null otherwise,
\* the same null for code 403 as for any other failure, the two differing
\* in the log line.
C7_SendTweetNeverPropagates ==
    Returned("sendTweet") =>
        /\ ~ret.threw
        /\ IF calls # <<>> /\ calls[1].outcome = "ok"
           THEN ret = Return("object", <<calls[1].data>>, FALSE)
           ELSE /\ ret = Return("null", <<>>, FALSE)
                /\ logs[Len(logs)] =
                     IF calls # <<>> /\ calls[1].code = 403
                     THEN "Access level error"
                     ELSE "Error posting tweet"

C7_Witness ==
    /\ Returned("sendTweet")
    /\ calls # <<>>
    /\ calls[1].code = 403
    /\ ret.type = "null"

\* C8: no call to the external API is issued while an earlier call, the
\* identity check included, is still outstanding.
C8_CallsStrictlySequential ==
    \A k \in 1..Len(calls) : calls[k].outstanding = 0

\* C9: within one operation every message and every delete request is
\* submitted at most once, nothing is submitted after a failed submission
\* (a thread whose message k fails has issued exactly k+1 create calls),
\* and a posting operation issues no delete request.
C9_NoRetryNoRollback ==
    /\ \A k \in 1..Len(calls) :
         /\ k < Len(calls) => calls[k].outcome = "ok"
         /\ op \in {"sendTweet", "createThread"} =>
              /\ calls[k].api = "tweet"
              /\ k <= Len(messages)
              /\ calls[k].message = messages[k]
         /\ op = "deleteTweet" =>
              /\ calls[k].api = "deleteTweet"
              /\ k = 1
              /\ calls[k].id = tweetId
    /\ (Returned("createThread") /\ ErrorCalls # {}) =>
         /\ Len(calls) = FirstError
         /\ Len(calls) = Len(tweets) + 1

C9_Witness ==
    /\ Returned("createThread")
    /\ Len(messages) = 2
    /\ Len(calls) = 2
    /\ calls[1].outcome = "ok"
    /\ calls[2].outcome = "error"
    /\ \A k \in 1..Len(calls) : calls[k].api = "tweet"

\* C10: no text longer than 280 is submitted to the create-message call,
\* as a single tweet or as an element of a thread.
C10_SubmittedTextWithinLimit ==
    \A k \in 1..Len(calls) :
        calls[k].api = "tweet" => calls[k].message.length <= MaxTweetLen

====
